---- MODULE Spec2Model ----
(***************************************************************************)
(* The three hashing programs of the repository:                           *)
(*   "md5c"  src/Program/md5.c                                             *)
(*   "part0" src/unnamed/part_000                                          *)
(*   "fin"   src/Video_Code/Finalizing_Padding/Finalizing_padding.c        *)
(* Each reads a file block by block through a padder, hands the blocks to  *)
(* a compression function and prints (or not) the chaining state.          *)
(*                                                                         *)
(* A 32-bit word is the pair <<hi, lo>> of its 16-bit halves, because the  *)
(* model checker's integers are 32-bit signed.  The host is taken to be    *)
(* little-endian (the unions are read in host byte order).                 *)
(***************************************************************************)
EXTENDS Integers, Sequences, FiniteSets, TLC

VARIABLES
    prog,      \* which program runs: "md5c", "part0" or "fin"
    data,      \* the bytes of the input file
    pos,       \* the stream's file position: bytes consumed so far
    ferr,      \* the stream's error indicator
    M,         \* main's block buffer, 64 bytes
    nobits,    \* main's bit counter
    status,    \* main's pad status
    hash,      \* main's chaining state H (part0: 4 words, fin: 8 words)
    output,    \* md5.c's global output[4]
    pc,        \* where main is
    out,       \* the blocks the padder has returned, in order
    fed,       \* the blocks handed to the compression function, in order
    printed,   \* the hex digits written to stdout
    W,         \* nexthash's message schedule W[]
    regs,      \* nexthash's working registers a..h
    t,         \* nexthash's round index
    junk,      \* what unassigned storage holds during the current nexthash call
    h0,        \* the chaining state a direct caller hands in
    res        \* what each direct call left in the chaining state

vars == <<prog, data, pos, ferr, M, nobits, status, hash, output, pc, out, fed,
          printed, W, regs, t, junk, h0, res>>

-----------------------------------------------------------------------------
(* Bounds of the model *)

\* longest input file, in bytes
MaxLen == 70

\* how many bytes one underlying read may deliver to fread
ChunkSizes == {1, 3, 64}

\* a failing read delivers this many bytes before the error
FaultCounts == {0, 1, 55, 56, 63}

Min(p, q) == IF p < q THEN p ELSE q

-----------------------------------------------------------------------------
(* 32-bit unsigned arithmetic (uint32_t) *)

W32(hi, lo) == <<hi, lo>>

AndNibble ==
    [p \in 0..15 |-> [q \in 0..15 |->
          ((p % 2) * (q % 2))
        + 2 * (((p \div 2) % 2) * ((q \div 2) % 2))
        + 4 * (((p \div 4) % 2) * ((q \div 4) % 2))
        + 8 * ((p \div 8) * (q \div 8))]]

AndByte ==
    [p \in 0..255 |-> [q \in 0..255 |->
        AndNibble[p % 16][q % 16] + 16 * AndNibble[p \div 16][q \div 16]]]

And16(p, q) == AndByte[p % 256][q % 256] + 256 * AndByte[p \div 256][q \div 256]

\* x & y, x | y, x ^ y, ~x
AND32(x, y) == <<And16(x[1], y[1]), And16(x[2], y[2])>>
OR32(x, y) == <<x[1] + y[1] - And16(x[1], y[1]), x[2] + y[2] - And16(x[2], y[2])>>
XOR32(x, y) ==
    <<x[1] + y[1] - 2 * And16(x[1], y[1]), x[2] + y[2] - 2 * And16(x[2], y[2])>>
NOT32(x) == <<65535 - x[1], 65535 - x[2]>>

\* x + y (mod 2^32)
Add32(x, y) ==
    LET lo == x[2] + y[2]
    IN  <<(x[1] + y[1] + (lo \div 65536)) % 65536, lo % 65536>>

\* x << n and x >> n for 0 < n < 32
SHL32(x, n) ==
    IF n >= 16 THEN <<(x[2] * 2^(n - 16)) % 65536, 0>>
    ELSE <<((x[1] * 2^n) % 65536) + (x[2] \div 2^(16 - n)), (x[2] * 2^n) % 65536>>
SHR(x, n) ==
    IF n >= 16 THEN <<0, x[1] \div 2^(n - 16)>>
    ELSE <<x[1] \div 2^n, ((x[1] * 2^(16 - n)) % 65536) + (x[2] \div 2^n)>>

ROTL(x, n) == OR32(SHL32(x, n), SHR(x, 32 - n))
ROTR(x, n) == OR32(SHR(x, n), SHL32(x, 32 - n))

\* tbl[i] of a C array (index from 0)
At(tbl, i) == tbl[i + 1]

-----------------------------------------------------------------------------
(* MD5: src/Program/md5.c and src/unnamed/part_000 *)

F(x, y, z) == OR32(AND32(x, y), AND32(NOT32(x), z))
G(x, y, z) == OR32(AND32(x, z), AND32(y, NOT32(z)))
H(x, y, z) == XOR32(XOR32(x, y), z)
I(x, y, z) == XOR32(y, OR32(x, NOT32(z)))

\* the value the macro leaves in its first argument
FF(a, b, c, d, m, s, tt) == Add32(b, ROTL(Add32(a, Add32(Add32(F(b, c, d), m), tt)), s))
GG(a, b, c, d, m, s, tt) == Add32(b, ROTL(Add32(a, Add32(Add32(G(b, c, d), m), tt)), s))
HH(a, b, c, d, m, s, tt) == Add32(b, ROTL(Add32(a, Add32(Add32(H(b, c, d), m), tt)), s))
II(a, b, c, d, m, s, tt) == Add32(b, ROTL(Add32(a, Add32(Add32(I(b, c, d), m), tt)), s))

AA == <<0, 3, 2, 1, 0, 3, 2, 1, 0, 3, 2, 1, 0, 3, 2, 1,
        0, 3, 2, 1, 0, 3, 2, 1, 0, 3, 2, 1, 0, 3, 2, 1,
        0, 3, 2, 1, 0, 3, 2, 1, 0, 3, 2, 1, 0, 3, 2, 1,
        0, 3, 2, 1, 0, 3, 2, 1, 0, 3, 2, 1, 0, 3, 2, 1>>

BB == <<1, 0, 3, 2, 1, 0, 3, 2, 1, 0, 3, 2, 1, 0, 3, 2,
        1, 0, 3, 2, 1, 0, 3, 2, 1, 0, 3, 2, 1, 0, 3, 2,
        1, 0, 3, 2, 1, 0, 3, 2, 1, 0, 3, 2, 1, 0, 3, 2,
        1, 0, 3, 2, 1, 0, 3, 2, 1, 0, 3, 2, 1, 0, 3, 2>>

CC == <<2, 1, 0, 3, 2, 1, 0, 3, 2, 1, 0, 3, 2, 1, 0, 3,
        2, 1, 0, 3, 2, 1, 0, 3, 2, 1, 0, 3, 2, 1, 0, 3,
        2, 1, 0, 3, 2, 1, 0, 3, 2, 1, 0, 3, 2, 1, 0, 3,
        2, 1, 0, 3, 2, 1, 0, 3, 2, 1, 0, 3, 2, 1, 0, 3>>

DD == <<3, 2, 1, 0, 3, 2, 1, 0, 3, 2, 1, 0, 3, 2, 1, 0,
        3, 2, 1, 0, 3, 2, 1, 0, 3, 2, 1, 0, 3, 2, 1, 0,
        3, 2, 1, 0, 3, 2, 1, 0, 3, 2, 1, 0, 3, 2, 1, 0,
        3, 2, 1, 0, 3, 2, 1, 0, 3, 2, 1, 0, 3, 2, 1, 0>>

MM == <<0, 1,  2,  3,  4,  5,  6,  7,  8,  9, 10, 11, 12, 13, 14, 15,
        1, 6, 11,  0,  5, 10, 15,  4,  9, 14,  3,  8, 13,  2,  7, 12,
        5, 8, 11, 14,  1,  4,  7, 10, 13,  0,  3,  6,  9, 12, 15,  2,
        0, 7, 14,  5, 12,  3, 10,  1,  8, 15,  6, 13,  4, 11,  2,  9>>

S == <<7, 12, 17, 22, 7, 12, 17, 22, 7, 12, 17, 22, 7, 12, 17, 22,
       5,  9, 14, 20, 5,  9, 14, 20, 5,  9, 14, 20, 5,  9, 14, 20,
       4, 11, 16, 23, 4, 11, 16, 23, 4, 11, 16, 23, 4, 11, 16, 23,
       6, 10, 15, 21, 6, 10, 15, 21, 6, 10, 15, 21, 6, 10, 15, 21>>

T == <<
    W32(\Hd76a, \Ha478), W32(\He8c7, \Hb756), W32(\H2420, \H70db), W32(\Hc1bd, \Hceee),
    W32(\Hf57c, \H0faf), W32(\H4787, \Hc62a), W32(\Ha830, \H4613), W32(\Hfd46, \H9501),
    W32(\H6980, \H98d8), W32(\H8b44, \Hf7af), W32(\Hffff, \H5bb1), W32(\H895c, \Hd7be),
    W32(\H6b90, \H1122), W32(\Hfd98, \H7193), W32(\Ha679, \H438e), W32(\H49b4, \H0821),
    W32(\Hf61e, \H2562), W32(\Hc040, \Hb340), W32(\H265e, \H5a51), W32(\He9b6, \Hc7aa),
    W32(\Hd62f, \H105d), W32(\H0244, \H1453), W32(\Hd8a1, \He681), W32(\He7d3, \Hfbc8),
    W32(\H21e1, \Hcde6), W32(\Hc337, \H07d6), W32(\Hf4d5, \H0d87), W32(\H455a, \H14ed),
    W32(\Ha9e3, \He905), W32(\Hfcef, \Ha3f8), W32(\H676f, \H02d9), W32(\H8d2a, \H4c8a),
    W32(\Hfffa, \H3942), W32(\H8771, \Hf681), W32(\H6d9d, \H6122), W32(\Hfde5, \H380c),
    W32(\Ha4be, \Hea44), W32(\H4bde, \Hcfa9), W32(\Hf6bb, \H4b60), W32(\Hbebf, \Hbc70),
    W32(\H289b, \H7ec6), W32(\Heaa1, \H27fa), W32(\Hd4ef, \H3085), W32(\H0488, \H1d05),
    W32(\Hd9d4, \Hd039), W32(\He6db, \H99e5), W32(\H1fa2, \H7cf8), W32(\Hc4ac, \H5665),
    W32(\Hf429, \H2244), W32(\H432a, \Hff97), W32(\Hab94, \H23a7), W32(\Hfc93, \Ha039),
    W32(\H655b, \H59c3), W32(\H8f0c, \Hcc92), W32(\Hffef, \Hf47d), W32(\H8584, \H5dd1),
    W32(\H6fa8, \H7e4f), W32(\Hfe2c, \He6e0), W32(\Ha301, \H4314), W32(\H4e08, \H11a1),
    W32(\Hf753, \H7e82), W32(\Hbd3a, \Hf235), W32(\H2ad7, \Hd2bb), W32(\Heb86, \Hd391)>>

A == W32(\H6745, \H2301)
B == W32(\Hefcd, \Hab89)
C == W32(\H98ba, \Hdcfe)
D == W32(\H1032, \H5476)

\* M->threetwo[k] on the little-endian host
threetwo(Mb, k) ==
    W32(Mb[4 * k + 2] + 256 * Mb[4 * k + 3], Mb[4 * k] + 256 * Mb[4 * k + 1])

\* C array {v0, v1, ...} as a function from 0
Arr(s) == [k \in 0..(Len(s) - 1) |-> s[k + 1]]

\* One pass of the loop of md5 in part_000: round i on H[] itself
md5_round(Hv, Mb, i) ==
    LET a == Hv[At(AA, i)]
        b == Hv[At(BB, i)]
        c == Hv[At(CC, i)]
        d == Hv[At(DD, i)]
        m == threetwo(Mb, At(MM, i))
        v == IF i < 16 THEN FF(a, b, c, d, m, At(S, i), At(T, i))
             ELSE IF i < 32 THEN GG(a, b, c, d, m, At(S, i), At(T, i))
             ELSE IF i < 48 THEN HH(a, b, c, d, m, At(S, i), At(T, i))
             ELSE II(a, b, c, d, m, At(S, i), At(T, i))
    IN  [Hv EXCEPT ![At(AA, i)] = v]

\* for (i = from; i < to; i++): H[] after the passes from .. to-1 of the loop
\* (the test on the domain only makes a pass complete before the next starts)
RECURSIVE md5_loop(_, _, _, _)
md5_loop(Hv, Mb, from, to) ==
    IF from >= to THEN Hv
    ELSE LET nxt == md5_round(Hv, Mb, from)
         IN  IF DOMAIN nxt = DOMAIN Hv THEN md5_loop(nxt, Mb, from + 1, to) ELSE nxt

\* md5(M, H) of part_000: what it leaves in H
md5_part_000(Mb, Hv) ==
    LET R == md5_loop(Hv, Mb, 0, 64)
    IN  [k \in 0..3 |-> Add32(R[k], Hv[k])]

\* The 64 statements of md5 in md5.c, in order:
\* <<macro, first .. fourth register argument (a = 0 .. d = 3),
\*   index into M->threetwo, index into S, index into T>>
md5_statements == <<
    <<"FF", 0, 1, 2, 3,  0,  0,  0>>, <<"FF", 3, 0, 1, 2,  1,  1,  1>>,
    <<"FF", 2, 3, 0, 1,  2,  2,  2>>, <<"FF", 1, 2, 3, 0,  3,  3,  3>>,
    <<"FF", 0, 1, 2, 3,  4,  4,  4>>, <<"FF", 3, 0, 1, 2,  5,  5,  5>>,
    <<"FF", 2, 3, 0, 1,  6,  6,  6>>, <<"FF", 1, 2, 3, 0,  7,  7,  7>>,
    <<"FF", 0, 1, 2, 3,  8,  8,  8>>, <<"FF", 3, 0, 1, 2,  9,  9,  9>>,
    <<"FF", 2, 3, 0, 1, 10, 10, 10>>, <<"FF", 1, 2, 3, 0, 11, 11, 11>>,
    <<"FF", 0, 1, 2, 3, 12, 12, 12>>, <<"FF", 3, 0, 1, 2, 13, 13, 13>>,
    <<"FF", 2, 3, 0, 1, 14, 14, 14>>, <<"FF", 1, 2, 3, 0, 15, 15, 15>>,
    <<"GG", 0, 1, 2, 3,  1, 16, 16>>, <<"GG", 3, 0, 1, 2,  6, 17, 17>>,
    <<"GG", 2, 3, 0, 1, 11, 18, 18>>, <<"GG", 1, 2, 3, 0,  0, 19, 19>>,
    <<"GG", 0, 1, 2, 3,  5, 20, 20>>, <<"GG", 3, 0, 1, 2, 10, 21, 21>>,
    <<"GG", 2, 3, 0, 1, 15, 22, 22>>, <<"GG", 1, 2, 3, 0,  4, 23, 23>>,
    <<"GG", 0, 1, 2, 3,  9, 24, 24>>, <<"GG", 3, 0, 1, 2, 14, 25, 25>>,
    <<"GG", 2, 3, 0, 1,  3, 26, 26>>, <<"GG", 1, 2, 3, 0,  8, 27, 27>>,
    <<"GG", 0, 1, 2, 3, 13, 28, 28>>, <<"GG", 3, 0, 1, 2,  2, 29, 29>>,
    <<"GG", 2, 3, 0, 1,  7, 30, 30>>, <<"GG", 1, 2, 3, 0, 12, 31, 31>>,
    <<"HH", 0, 1, 2, 3,  5, 32, 32>>, <<"HH", 3, 0, 1, 2,  8, 33, 33>>,
    <<"HH", 2, 3, 0, 1, 11, 34, 34>>, <<"HH", 1, 2, 3, 0, 14, 35, 35>>,
    <<"HH", 0, 1, 2, 3,  1, 36, 36>>, <<"HH", 3, 0, 1, 2,  4, 37, 37>>,
    <<"HH", 2, 3, 0, 1,  7, 38, 38>>, <<"HH", 1, 2, 3, 0, 10, 39, 39>>,
    <<"HH", 0, 1, 2, 3, 13, 40, 40>>, <<"HH", 3, 0, 1, 2,  0, 41, 41>>,
    <<"HH", 2, 3, 0, 1,  3, 42, 42>>, <<"HH", 1, 2, 3, 0,  6, 43, 43>>,
    <<"HH", 0, 1, 2, 3,  9, 44, 44>>, <<"HH", 3, 0, 1, 2, 12, 45, 45>>,
    <<"HH", 2, 3, 0, 1, 15, 46, 46>>, <<"HH", 1, 2, 3, 0,  2, 47, 47>>,
    <<"II", 0, 1, 2, 3,  0, 47, 48>>, <<"II", 3, 0, 1, 2,  7, 47, 49>>,
    <<"II", 2, 3, 0, 1, 14, 47, 50>>, <<"II", 1, 2, 3, 0,  5, 47, 51>>,
    <<"II", 0, 1, 2, 3, 12, 47, 52>>, <<"II", 3, 0, 1, 2,  3, 47, 53>>,
    <<"II", 2, 3, 0, 1, 10, 47, 54>>, <<"II", 1, 2, 3, 0,  1, 47, 55>>,
    <<"II", 0, 1, 2, 3,  8, 47, 56>>, <<"II", 3, 0, 1, 2, 15, 47, 57>>,
    <<"II", 2, 3, 0, 1,  6, 47, 58>>, <<"II", 1, 2, 3, 0, 13, 47, 59>>,
    <<"II", 0, 1, 2, 3,  4, 47, 60>>, <<"II", 3, 0, 1, 2, 11, 47, 61>>,
    <<"II", 2, 3, 0, 1,  2, 47, 62>>, <<"II", 1, 2, 3, 0,  9, 47, 63>>>>

\* statement n (from 0) of md5 in md5.c on the registers a, b, c, d
md5_statement(r, Mb, n) ==
    LET st == At(md5_statements, n)
        a == r[st[2]]
        b == r[st[3]]
        c == r[st[4]]
        d == r[st[5]]
        m == threetwo(Mb, st[6])
        s == At(S, st[7])
        tt == At(T, st[8])
        v == IF st[1] = "FF" THEN FF(a, b, c, d, m, s, tt)
             ELSE IF st[1] = "GG" THEN GG(a, b, c, d, m, s, tt)
             ELSE IF st[1] = "HH" THEN HH(a, b, c, d, m, s, tt)
             ELSE II(a, b, c, d, m, s, tt)
    IN  [r EXCEPT ![st[2]] = v]

\* the registers after the statements from .. to-1
RECURSIVE md5_registers(_, _, _, _)
md5_registers(r, Mb, from, to) ==
    IF from >= to THEN r
    ELSE LET nxt == md5_statement(r, Mb, from)
         IN  IF DOMAIN nxt = DOMAIN r THEN md5_registers(nxt, Mb, from + 1, to) ELSE nxt

\* md5(state, M) of md5.c: what it leaves in state[] and in the global output[].
\* state[] holds unsigned long; a = state[0] keeps its low 32 bits.
md5_Program(state, Mb, outp) ==
    LET r == md5_registers(state, Mb, 0, 64)
    IN  [state |-> state, output |-> [k \in 0..3 |-> Add32(outp[k], r[k])]]

-----------------------------------------------------------------------------
(* The SHA-256 style compression of Finalizing_padding.c *)

K == <<
    W32(\H428a, \H2f98), W32(\H7137, \H4491), W32(\Hb5c0, \Hfbcf), W32(\He9b5, \Hdba5),
    W32(\H3956, \Hc25b), W32(\H59f1, \H11f1), W32(\H923f, \H82a4), W32(\Hab1c, \H5ed5),
    W32(\Hd807, \Haa98), W32(\H1283, \H5b01), W32(\H2431, \H85be), W32(\H550c, \H7dc3),
    W32(\H72be, \H5d74), W32(\H80de, \Hb1fe), W32(\H9bdc, \H06a7), W32(\Hc19b, \Hf174),
    W32(\He49b, \H69c1), W32(\Hefbe, \H4786), W32(\H0fc1, \H9dc6), W32(\H240c, \Ha1cc),
    W32(\H2de9, \H2c6f), W32(\H4a74, \H84aa), W32(\H5cb0, \Ha9dc), W32(\H76f9, \H88da),
    W32(\H983e, \H5152), W32(\Ha831, \Hc66d), W32(\Hb003, \H27c8), W32(\Hbf59, \H7fc7),
    W32(\Hc6e0, \H0bf3), W32(\Hd5a7, \H9147), W32(\H06ca, \H6351), W32(\H1429, \H2967),
    W32(\H27b7, \H0a85), W32(\H2e1b, \H2138), W32(\H4d2c, \H6dfc), W32(\H5338, \H0d13),
    W32(\H650a, \H7354), W32(\H766a, \H0abb), W32(\H81c2, \Hc92e), W32(\H9272, \H2c85),
    W32(\Ha2bf, \He8a1), W32(\Ha81a, \H664b), W32(\Hc24b, \H8b70), W32(\Hc76c, \H51a3),
    W32(\Hd192, \He819), W32(\Hd699, \H0624), W32(\Hf40e, \H3585), W32(\H106a, \Ha070),
    W32(\H19a4, \Hc116), W32(\H1e37, \H6c08), W32(\H2748, \H774c), W32(\H34b0, \Hbcb5),
    W32(\H391c, \H0cb3), W32(\H4ed8, \Haa4a), W32(\H5b9c, \Hca4f), W32(\H682e, \H6ff3),
    W32(\H748f, \H82ee), W32(\H78a5, \H636f), W32(\H84c8, \H7814), W32(\H8cc7, \H0208),
    W32(\H90be, \Hfffa), W32(\Ha450, \H6ceb), W32(\Hbef9, \Ha3f7), W32(\Hc671, \H78f2)>>

Maj(x, y, z) == XOR32(XOR32(AND32(x, y), AND32(x, z)), AND32(y, z))
Ch(x, y, z) == XOR32(AND32(x, y), AND32(NOT32(x), z))
Sig0(x) == XOR32(XOR32(ROTR(x, 2), ROTR(x, 13)), ROTR(x, 22))
Sig1(x) == XOR32(XOR32(ROTR(x, 6), ROTR(x, 11)), ROTR(x, 25))
sig_zero(x) == XOR32(XOR32(ROTR(x, 7), ROTR(x, 18)), SHR(x, 3))
sig_one(x) == XOR32(XOR32(ROTR(x, 17), ROTR(x, 19)), SHR(x, 10))

\* What an unassigned or out-of-bounds word may hold when it is read
JunkWords == {W32(0, 0), W32(\Hffff, \Hffff)}

\* the bound of the second schedule loop: for (t = 16; t < 16; t++)
nexthash_expand_to == 16

\* for (t = from; t < to; t++) W[t] = sig_one(W[t-2]) + W[t-7] + sig_zero(W[t-15]) + W[t-16]
RECURSIVE nexthash_expand(_, _, _)
nexthash_expand(Wv, from, to) ==
    IF from >= to THEN Wv
    ELSE LET w == Add32(Add32(Add32(sig_one(Wv[from - 2]), Wv[from - 7]),
                              sig_zero(Wv[from - 15])), Wv[from - 16])
         IN  IF Len(w) = 2 THEN nexthash_expand([Wv EXCEPT ![from] = w], from + 1, to)
             ELSE Wv

\* the indices of W[] the two schedule loops assign
nexthash_written == (0..15) \cup {k \in 16..63 : k < nexthash_expand_to}

\* W[] when the round loop starts: W[0..15] are assigned from the block; the
\* second loop (t = 16; t < 16) assigns nothing, so W[16..63] hold what the
\* stack held, and index 64 is the word behind the array.
nexthash_schedule(Mb, jw) ==
    nexthash_expand([k \in 0..64 |-> IF k < 16 THEN threetwo(Mb, k) ELSE jw],
                    16, nexthash_expand_to)

\* K[i]; K has 64 entries, K[64] is the word behind the table
K_at(i, jw) == IF i < 64 THEN At(K, i) ELSE jw

\* One pass of the round loop: st = [regs, H] before round i
nexthash_round(st, Wv, i, jw) ==
    LET a == st.regs[0]
        b == st.regs[1]
        c == st.regs[2]
        d == st.regs[3]
        e == st.regs[4]
        f == st.regs[5]
        g == st.regs[6]
        h == st.regs[7]
        T1 == Add32(Add32(Add32(Add32(h, Sig1(e)), Ch(e, f, g)), K_at(i, jw)), Wv[i])
        T2 == Add32(Sig0(a), Maj(a, b, c))
        n == Arr(<<Add32(T1, T2), a, b, c, Add32(d, T1), e, f, g>>)
        Hn == Arr(<<Add32(st.H[0], n[0]), Add32(st.H[1], n[1]), Add32(st.H[2], n[2]),
                    Add32(st.H[3], n[3]), Add32(st.H[4], n[4]), Add32(st.H[5], n[5]),
                    Add32(st.H[6], n[6]), Add32(st.H[7], n[5])>>)
    IN  [regs |-> n, H |-> Hn]

\* the loop bound of the round loop: for (t = 0; t < 65; t++)
nexthash_rounds == 65

\* for (t = from; t < to; t++): [regs, H] after the rounds from .. to-1
RECURSIVE nexthash_loop(_, _, _, _, _)
nexthash_loop(st, Wv, from, to, jw) ==
    IF from >= to THEN st
    ELSE LET nxt == nexthash_round(st, Wv, from, jw)
         IN  IF DOMAIN nxt.H = DOMAIN st.H THEN nexthash_loop(nxt, Wv, from + 1, to, jw)
             ELSE nxt

\* nexthash(M, H): what it leaves in H
nexthash(Mb, Hv, jw) ==
    nexthash_loop([regs |-> Hv, H |-> Hv], nexthash_schedule(Mb, jw), 0, nexthash_rounds,
                  jw).H

\* H[] of main in Finalizing_padding.c
H_init == Arr(<<W32(\H6a09, \He667), W32(\Hbb67, \Hae85), W32(\H3c6e, \Hf372),
                W32(\Ha54f, \Hf53a), W32(\H510e, \H527f), W32(\H9b05, \H688c),
                W32(\H1f83, \Hd9ab), W32(\H5be0, \Hcd19)>>)

-----------------------------------------------------------------------------
(* The byte source: fread(M->eight, 1, 64, infile) *)

\* byte i (from 1) of the input files: 80 00 80 01 80 02 ...
Payload(i) == IF i % 2 = 1 THEN 128 ELSE ((i \div 2) - 1) % 256

Files == {[i \in 1..n |-> Payload(i)] : n \in 0..MaxLen}

Remaining == Len(data) - pos

\* fread reads on, at most c bytes per underlying read, until it has the 64
\* bytes asked for or the file has ended: the number of bytes it returns
RECURSIVE fread_count(_, _)
fread_count(got, c) ==
    IF got = 64 \/ got = Remaining THEN got
    ELSE fread_count(got + Min(c, Min(64 - got, Remaining - got)), c)

\* the next n bytes of the file
Bytes(n) == SubSeq(data, pos + 1, pos + n)

\* What one call of fread may deliver: the bytes, and whether the read failed.
\* A failing read delivers fewer bytes than the file still holds; after a
\* failure a read either fails again or goes on where the stream stands.
fread_results ==
    LET good == {[bytes |-> Bytes(fread_count(0, c)), error |-> FALSE] : c \in ChunkSizes}
        torn == {[bytes |-> Bytes(k), error |-> TRUE] :
                    k \in {j \in FaultCounts : j < Min(64, Remaining)}}
    IN  IF ferr THEN good \cup {[bytes |-> <<>>, error |-> TRUE]}
        ELSE good \cup torn

-----------------------------------------------------------------------------
(* The block union and the padders *)

\* fread stores what it read from M->eight[0] on
fread_store(Mb, got) == [i \in 0..63 |-> IF i < Len(got) THEN got[i + 1] ELSE Mb[i]]

\* M->eight[k] = v
eight_store(Mb, k, v) == [Mb EXCEPT ![k] = v]

\* eight_zero with the loop started one byte late
eight_zero_late(Mb, from, to) ==
    [i \in 0..63 |-> IF from + 1 <= i /\ i < to THEN 0 ELSE Mb[i]]

\* for (i = from; i < to; i++) M->eight[i] = 0
eight_zero(Mb, from, to) == [i \in 0..63 |-> IF from <= i /\ i < to THEN 0 ELSE Mb[i]]

\* byte j of the uint64_t v in memory (little-endian); the counter stays far
\* below 2^32 for the files of the model
Byte64(v, j) == IF j < 4 THEN (v \div (256^j)) % 256 ELSE 0

\* M->sixfour[7] = v
sixfour7_store(Mb, v) == [i \in 0..63 |-> IF i >= 56 THEN Byte64(v, i - 56) ELSE Mb[i]]

\* pad with the first test off by one (nobytesread < 57): a read of 56 bytes
\* is taken to leave room for the length
pad_fits_57(Mb, got, nb, st) ==
    IF st = "FINISH" THEN
        [ret |-> 0, M |-> Mb, nobits |-> nb, status |-> st, reads |-> 0, consumed |-> 0]
    ELSE IF st = "PAD0" THEN
        [ret |-> 1, M |-> sixfour7_store(eight_zero(Mb, 0, 56), nb), nobits |-> nb,
         status |-> "FINISH", reads |-> 0, consumed |-> 0]
    ELSE
        LET nobytesread == Len(got)
            M1 == fread_store(Mb, got)
            nb1 == nb + 8 * nobytesread
        IN  IF nobytesread < 57 THEN
                [ret |-> 1,
                 M |-> sixfour7_store(
                          eight_zero(eight_store(M1, nobytesread, 128), nobytesread + 1, 56),
                          nb1),
                 nobits |-> nb1, status |-> "FINISH", reads |-> 1, consumed |-> nobytesread]
            ELSE IF nobytesread < 64 THEN
                [ret |-> 1,
                 M |-> eight_zero(eight_store(M1, nobytesread, 128), nobytesread + 1, 64),
                 nobits |-> nb1, status |-> "PAD0", reads |-> 1, consumed |-> nobytesread]
            ELSE
                [ret |-> 1, M |-> M1, nobits |-> nb1, status |-> st, reads |-> 1,
                 consumed |-> nobytesread]

\* pad(M, infile, nobits, status) of md5.c, got being what fread delivers if
\* it is called: the return value, *M, *nobits, *status, and whether and how
\* much was read
pad(Mb, got, nb, st) ==
    IF st = "FINISH" THEN
        [ret |-> 0, M |-> Mb, nobits |-> nb, status |-> st, reads |-> 0, consumed |-> 0]
    ELSE IF st = "PAD0" THEN
        [ret |-> 1, M |-> sixfour7_store(eight_zero(Mb, 0, 56), nb), nobits |-> nb,
         status |-> "FINISH", reads |-> 0, consumed |-> 0]
    ELSE
        LET nobytesread == Len(got)
            M1 == fread_store(Mb, got)
            nb1 == nb + 8 * nobytesread
        IN  IF nobytesread < 56 THEN
                [ret |-> 1,
                 M |-> sixfour7_store(
                          eight_zero(eight_store(M1, nobytesread, 128), nobytesread + 1, 56),
                          nb1),
                 nobits |-> nb1, status |-> "FINISH", reads |-> 1, consumed |-> nobytesread]
            ELSE IF nobytesread < 64 THEN
                [ret |-> 1,
                 M |-> eight_zero(eight_store(M1, nobytesread, 128), nobytesread + 1, 64),
                 nobits |-> nb1, status |-> "PAD0", reads |-> 1, consumed |-> nobytesread]
            ELSE
                [ret |-> 1, M |-> M1, nobits |-> nb1, status |-> st, reads |-> 1,
                 consumed |-> nobytesread]

\* nextblock(M, infile, nobits, status) of part_000: fread and the counter
\* update come first, whatever the status
nextblock_part_000(Mb, got, nb, st) ==
    LET nobytesread == Len(got)
        M1 == fread_store(Mb, got)
        nb1 == nb + nobytesread * 8
    IN  IF st = "FINISH" THEN
            [ret |-> 0, M |-> M1, nobits |-> nb1, status |-> st, reads |-> 1,
             consumed |-> nobytesread]
        ELSE IF st = "PAD0" THEN
            [ret |-> 1, M |-> sixfour7_store(eight_zero(M1, 0, 57), nb1), nobits |-> nb1,
             status |-> "FINISH", reads |-> 1, consumed |-> nobytesread]
        ELSE IF nobytesread < 56 THEN
            [ret |-> 1,
             M |-> sixfour7_store(
                      eight_zero(eight_store(M1, nobytesread, 128), nobytesread + 1, 56),
                      nb1),
             nobits |-> nb1, status |-> "FINISH", reads |-> 1, consumed |-> nobytesread]
        ELSE IF nobytesread < 64 THEN
            [ret |-> 1,
             M |-> eight_zero(eight_store(M1, nobytesread, 128), nobytesread + 1, 64),
             nobits |-> nb1, status |-> "PAD0", reads |-> 1, consumed |-> nobytesread]
        ELSE
            [ret |-> 1, M |-> M1, nobits |-> nb1, status |-> st, reads |-> 1,
             consumed |-> nobytesread]

\* nextblock of Finalizing_padding.c leaving PAD1 where it leaves PAD0: the
\* branch for PAD1 is then taken by the next call
nextblock_Finalizing_PAD1(Mb, got, nb, st) ==
    IF st = "FINISH" THEN
        [ret |-> 0, M |-> Mb, nobits |-> nb, status |-> st, reads |-> 0, consumed |-> 0]
    ELSE IF st = "PAD1" THEN
        [ret |-> 1, M |-> sixfour7_store(eight_zero(eight_store(Mb, 0, 128), 1, 56), nb),
         nobits |-> nb, status |-> "FINISH", reads |-> 0, consumed |-> 0]
    ELSE IF st = "PAD0" THEN
        [ret |-> 1, M |-> sixfour7_store(eight_zero(Mb, 0, 56), nb), nobits |-> nb,
         status |-> "FINISH", reads |-> 0, consumed |-> 0]
    ELSE
        LET nobytesread == Len(got)
            M1 == fread_store(Mb, got)
        IN  IF nobytesread = 64 THEN
                [ret |-> 1, M |-> M1, nobits |-> nb, status |-> st, reads |-> 1,
                 consumed |-> nobytesread]
            ELSE IF nobytesread < 56 THEN
                [ret |-> 1,
                 M |-> sixfour7_store(
                          eight_zero(eight_store(M1, nobytesread, 128), nobytesread + 1, 56),
                          nb),
                 nobits |-> nb, status |-> "FINISH", reads |-> 1, consumed |-> nobytesread]
            ELSE
                [ret |-> 1,
                 M |-> eight_zero(eight_store(M1, nobytesread, 128), nobytesread + 1, 64),
                 nobits |-> nb, status |-> "PAD1", reads |-> 1, consumed |-> nobytesread]

\* nextblock(M, infile, nobits, status) of Finalizing_padding.c: *nobits is
\* read, never written
nextblock_Finalizing(Mb, got, nb, st) ==
    IF st = "FINISH" THEN
        [ret |-> 0, M |-> Mb, nobits |-> nb, status |-> st, reads |-> 0, consumed |-> 0]
    ELSE IF st = "PAD1" THEN
        [ret |-> 1, M |-> sixfour7_store(eight_zero(eight_store(Mb, 0, 128), 1, 56), nb),
         nobits |-> nb, status |-> "FINISH", reads |-> 0, consumed |-> 0]
    ELSE IF st = "PAD0" THEN
        [ret |-> 1, M |-> sixfour7_store(eight_zero(Mb, 0, 56), nb), nobits |-> nb,
         status |-> "FINISH", reads |-> 0, consumed |-> 0]
    ELSE
        LET nobytesread == Len(got)
            M1 == fread_store(Mb, got)
        IN  IF nobytesread = 64 THEN
                [ret |-> 1, M |-> M1, nobits |-> nb, status |-> st, reads |-> 1,
                 consumed |-> nobytesread]
            ELSE IF nobytesread < 56 THEN
                [ret |-> 1,
                 M |-> sixfour7_store(
                          eight_zero(eight_store(M1, nobytesread, 128), nobytesread + 1, 56),
                          nb),
                 nobits |-> nb, status |-> "FINISH", reads |-> 1, consumed |-> nobytesread]
            ELSE
                [ret |-> 1,
                 M |-> eight_zero(eight_store(M1, nobytesread, 128), nobytesread + 1, 64),
                 nobits |-> nb, status |-> "PAD0", reads |-> 1, consumed |-> nobytesread]

-----------------------------------------------------------------------------
(* printf *)

\* the eight hex digits of a word
HexDigits(w) ==
    <<w[1] \div 4096, (w[1] \div 256) % 16, (w[1] \div 16) % 16, w[1] % 16,
      w[2] \div 4096, (w[2] \div 256) % 16, (w[2] \div 16) % 16, w[2] % 16>>

\* "%02x" and "%02" PRIX32: no leading zeros, two digits at least (the case
\* of the letters is not modelled)
RECURSIVE printf_02x(_)
printf_02x(ds) == IF Len(ds) > 2 /\ Head(ds) = 0 THEN printf_02x(Tail(ds)) ELSE ds

\* for (i = 0; i < n; i++) printf("%02x", words[i])
RECURSIVE print_words(_, _)
print_words(words, n) ==
    IF n = 0 THEN <<>>
    ELSE print_words(words, n - 1) \o printf_02x(HexDigits(words[n - 1]))

-----------------------------------------------------------------------------
(* The programs: main *)

Programs == {"md5c", "part0", "fin"}

\* a local BLOCK M before anything is stored in it
StackBlocks == {[i \in 0..63 |-> b] : b \in {0, 255}}

NoWords == <<>>

Init ==
    /\ prog \in Programs
    /\ data \in Files
    /\ pos = 0
    /\ ferr = FALSE
    /\ M \in StackBlocks
    /\ nobits = 0
    /\ status = "READ"
    /\ hash = IF prog = "part0" THEN Arr(<<A, B, C, D>>)
              ELSE IF prog = "fin" THEN H_init
              ELSE NoWords
    /\ output = IF prog = "md5c" THEN Arr(<<W32(0, 0), W32(0, 0), W32(0, 0), W32(0, 0)>>)
                ELSE NoWords
    /\ pc = "loop"
    /\ out = <<>>
    /\ fed = <<>>
    /\ printed = <<>>
    /\ W = NoWords
    /\ regs = NoWords
    /\ t = 0
    /\ junk = W32(0, 0)
    /\ h0 = NoWords
    /\ res = <<>>

direct == <<W, regs, t, h0, res>>

\* the loop condition of main: the padder is called and its result tested
returned(r, f) ==
    /\ M' = r.M
    /\ nobits' = r.nobits
    /\ status' = r.status
    /\ pos' = pos + r.consumed
    /\ ferr' = (ferr \/ (r.reads = 1 /\ f.error))
    /\ out' = IF r.ret = 1 THEN Append(out, r.M) ELSE out
    /\ pc' = IF r.ret = 1 THEN "body" ELSE "after"
    /\ UNCHANGED <<prog, data, hash, output, fed, printed, junk, direct>>

\* the loop of md5.c with no test of what pad returns: the body runs after
\* every call
main_pad_untested ==
    /\ prog = "md5c"
    /\ pc = "loop"
    /\ \E f \in fread_results :
        LET r == pad(M, f.bytes, nobits, status)
        IN  /\ M' = r.M
            /\ nobits' = r.nobits
            /\ status' = r.status
            /\ pos' = pos + r.consumed
            /\ ferr' = (ferr \/ (r.reads = 1 /\ f.error))
            /\ out' = IF r.ret = 1 THEN Append(out, r.M) ELSE out
            /\ pc' = "body"
            /\ UNCHANGED <<prog, data, hash, output, fed, printed, junk, direct>>

main_pad ==
    /\ prog = "md5c"
    /\ pc = "loop"
    /\ \E f \in fread_results : returned(pad(M, f.bytes, nobits, status), f)

main_nextblock_part_000 ==
    /\ prog = "part0"
    /\ pc = "loop"
    /\ \E f \in fread_results : returned(nextblock_part_000(M, f.bytes, nobits, status), f)

main_nextblock_Finalizing ==
    /\ prog = "fin"
    /\ pc = "loop"
    /\ \E f \in fread_results : returned(nextblock_Finalizing(M, f.bytes, nobits, status), f)

\* md5.c: the loop body calls MD5_Prepare, which is empty; //md5(&M);
main_MD5_Prepare ==
    /\ prog = "md5c"
    /\ pc = "body"
    /\ pc' = "loop"
    /\ UNCHANGED <<prog, data, pos, ferr, M, nobits, status, hash, output, out, fed,
                   printed, junk, direct>>

\* part_000: md5(&M, H)
main_md5 ==
    /\ prog = "part0"
    /\ pc = "body"
    /\ hash' = md5_part_000(M, hash)
    /\ fed' = Append(fed, M)
    /\ pc' = "loop"
    /\ UNCHANGED <<prog, data, pos, ferr, M, nobits, status, output, out, printed, junk,
                   direct>>

\* Finalizing_padding.c: nexthash(&M, H)
main_nexthash ==
    /\ prog = "fin"
    /\ pc = "body"
    /\ \E j \in JunkWords :
        /\ junk' = j
        /\ hash' = nexthash(M, hash, j)
    /\ fed' = Append(fed, M)
    /\ pc' = "loop"
    /\ UNCHANGED <<prog, data, pos, ferr, M, nobits, status, output, out, printed, direct>>

\* after the loop: md5.c prints output[0..3], Finalizing_padding.c prints
\* H[0..7], part_000 prints nothing
main_print ==
    /\ pc = "after"
    /\ printed' = IF prog = "md5c" THEN print_words(output, 4)
                  ELSE IF prog = "fin" THEN print_words(hash, 8)
                  ELSE printed
    /\ pc' = "done"
    /\ UNCHANGED <<prog, data, pos, ferr, M, nobits, status, hash, output, out, fed, junk,
                   direct>>

Next ==
    \/ main_pad
    \/ main_nextblock_part_000
    \/ main_nextblock_Finalizing
    \/ main_MD5_Prepare
    \/ main_md5
    \/ main_nexthash
    \/ main_print

Spec == Init /\ [][Next]_vars

\* main is one thread that runs on while it has a statement to execute: weak
\* fairness of Next, that is []<>(~ENABLED <<Next>>_vars) \/ []<><<Next>>_vars.
\* A step of main can be taken exactly when pc # "done" and the steps of main
\* are the steps that change pc; the two are written here in the place of
\* ENABLED <<Next>>_vars and <<Next>>_vars.
FairSpec == Spec /\ ([]<>(pc = "done") \/ []<><<pc' # pc>>_pc)

-----------------------------------------------------------------------------
(* The compression functions called directly: a caller hands the same       *)
(* chaining state h0 and the same block M to the function twice.           *)

\* longest message whose padded block is handed in
MaxDirectLen == 3

DirectBlocks ==
    {pad(CHOOSE b \in StackBlocks : TRUE, [i \in 1..n |-> Payload(i)], 0, "READ").M :
        n \in 0..MaxDirectLen}

InitDirect ==
    /\ prog \in Programs
    /\ M \in DirectBlocks
    /\ h0 \in IF prog = "fin" THEN {H_init, [k \in 0..7 |-> W32(0, 0)]}
              ELSE {Arr(<<A, B, C, D>>), [k \in 0..3 |-> W32(0, 0)]}
    /\ hash = h0
    /\ output = IF prog = "md5c" THEN Arr(<<W32(0, 0), W32(0, 0), W32(0, 0), W32(0, 0)>>)
                ELSE NoWords
    /\ pc = "caller"
    /\ res = <<>>
    /\ W = NoWords
    /\ regs = NoWords
    /\ t = 0
    /\ junk = W32(0, 0)
    /\ data = <<>>
    /\ pos = 0
    /\ ferr = FALSE
    /\ nobits = 0
    /\ status = "READ"
    /\ out = <<>>
    /\ fed = <<>>
    /\ printed = <<>>

file == <<data, pos, ferr, nobits, status, out, fed, printed>>

\* md5(state, &M) of md5.c
call_md5_Program ==
    /\ prog = "md5c"
    /\ pc = "caller"
    /\ Len(res) < 2
    /\ LET r == md5_Program(h0, M, output)
       IN  /\ hash' = r.state
           /\ output' = r.output
           /\ res' = Append(res, r.state)
    /\ UNCHANGED <<prog, M, pc, W, regs, t, junk, h0, file>>

\* md5(&M, H) of part_000
call_md5_part_000 ==
    /\ prog = "part0"
    /\ pc = "caller"
    /\ Len(res) < 2
    /\ hash' = md5_part_000(M, h0)
    /\ res' = Append(res, hash')
    /\ UNCHANGED <<prog, M, pc, output, W, regs, t, junk, h0, file>>

\* nexthash(&M, H): the two schedule loops and the load of a..h
nexthash_enter ==
    /\ prog = "fin"
    /\ pc = "caller"
    /\ Len(res) < 2
    /\ \E j \in JunkWords :
        /\ junk' = j
        /\ W' = nexthash_schedule(M, j)
    /\ hash' = h0
    /\ regs' = h0
    /\ t' = 0
    /\ pc' = "rounds"
    /\ UNCHANGED <<prog, M, output, h0, res, file>>

\* one pass of for (t = 0; t < 65; t++)
nexthash_pass ==
    /\ pc = "rounds"
    /\ t < nexthash_rounds
    /\ LET n == nexthash_round([regs |-> regs, H |-> hash], W, t, junk)
       IN  /\ regs' = n.regs
           /\ hash' = n.H
    /\ t' = t + 1
    /\ UNCHANGED <<prog, M, output, pc, W, junk, h0, res, file>>

\* the loop ends and nexthash returns
nexthash_return ==
    /\ pc = "rounds"
    /\ ~(t < nexthash_rounds)
    /\ res' = Append(res, hash)
    /\ pc' = "caller"
    /\ UNCHANGED <<prog, M, hash, output, W, regs, t, junk, h0, file>>

NextDirect ==
    \/ call_md5_Program
    \/ call_md5_part_000
    \/ nexthash_enter
    \/ nexthash_pass
    \/ nexthash_return

SpecDirect == InitDirect /\ [][NextDirect]_vars

-----------------------------------------------------------------------------
(* What the claims speak about *)

\* byte k (from 0) of the concatenation of the returned blocks
StreamAt(k) == out[(k \div 64) + 1][k % 64]

\* M->sixfour[7] read back (-1: beyond the counter values of the model)
sixfour7(Mb) ==
    IF Mb[59] >= 128 \/ Mb[60] # 0 \/ Mb[61] # 0 \/ Mb[62] # 0 \/ Mb[63] # 0 THEN -1
    ELSE Mb[56] + 256 * Mb[57] + 65536 * Mb[58] + 16777216 * Mb[59]

\* the padder of program p
padder(p, Mb, got, nb, st) ==
    IF p = "md5c" THEN pad(Mb, got, nb, st)
    ELSE IF p = "part0" THEN nextblock_part_000(Mb, got, nb, st)
    ELSE nextblock_Finalizing(Mb, got, nb, st)

\* the blocks main's loop gets from the padder when every fread delivers all
\* it can
RECURSIVE whole_run(_, _, _, _, _)
whole_run(Mb, at, nb, st, acc) ==
    LET r == padder(prog, Mb, SubSeq(data, at + 1, at + Min(64, Len(data) - at)), nb, st)
    IN  IF r.ret = 0 THEN acc
        ELSE whole_run(r.M, at + r.consumed, r.nobits, r.status, Append(acc, r.M))

\* the chaining state after the first n of these blocks, unassigned storage
\* holding jw
RECURSIVE whole_hash(_, _, _)
whole_hash(blocks, n, jw) ==
    IF n = 0 THEN (IF prog = "fin" THEN H_init ELSE Arr(<<A, B, C, D>>))
    ELSE IF prog = "fin" THEN nexthash(blocks[n], whole_hash(blocks, n - 1, jw), jw)
    ELSE md5_part_000(blocks[n], whole_hash(blocks, n - 1, jw))

\* the digits of d41d8cd98f00b204e9800998ecf8427e
MD5_empty ==
    <<13, 4, 1, 13, 8, 12, 13, 9, 8, 15, 0, 0, 11, 2, 0, 4,
      14, 9, 8, 0, 0, 9, 9, 8, 14, 12, 15, 8, 4, 2, 7, 14>>

\* the digits of e3b0c44298fc1c149afbf4c8996fb92427ae41e4649b934ca495991b7852b855
SHA256_empty ==
    <<14, 3, 11, 0, 12, 4, 4, 2, 9, 8, 15, 12, 1, 12, 1, 4,
      9, 10, 15, 11, 15, 4, 12, 8, 9, 9, 6, 15, 11, 9, 2, 4,
      2, 7, 10, 14, 4, 1, 14, 4, 6, 4, 9, 11, 9, 3, 4, 12,
      10, 4, 9, 5, 9, 9, 1, 11, 7, 8, 5, 2, 11, 8, 5, 5>>

\* what statement n (from 0) of md5 in md5.c applies: <<macro, the four
\* registers, index of the message word, rotate amount, constant>>
md5_statement_tuple(n) ==
    LET st == At(md5_statements, n)
    IN  <<st[1], st[2], st[3], st[4], st[5], st[6], At(S, st[7]), At(T, st[8])>>

\* the same for pass i of the loop of md5 in part_000
md5_round_tuple(i) ==
    <<IF i < 16 THEN "FF" ELSE IF i < 32 THEN "GG" ELSE IF i < 48 THEN "HH" ELSE "II",
      At(AA, i), At(BB, i), At(CC, i), At(DD, i), At(MM, i), At(S, i), At(T, i)>>

\* the loop of main has ended
LoopOver == pc \in {"after", "done"}

-----------------------------------------------------------------------------
(* The claims *)

\* C1: for an N-byte file read without error, each padder returns exactly
\* floor((N+8)/64)+1 blocks of 64 bytes before it returns 0 (never more on
\* the way), so one block for the empty file and an extra block when N is a
\* multiple of 64.
C1_BlockCount ==
    ~ferr =>
        /\ Len(out) <= ((Len(data) + 8) \div 64) + 1
        /\ LoopOver => Len(out) = ((Len(data) + 8) \div 64) + 1
        /\ \A b \in 1..Len(out) : DOMAIN out[b] = 0..63

\* a 64-byte file has been padded to two blocks
C1_Witness == pc = "done" /\ ~ferr /\ Len(data) = 64 /\ Len(out) = 2

\* C2: for an N-byte file the length field M->sixfour[7] of the last block
\* returned holds 8*N.
C2_LengthField ==
    (LoopOver /\ ~ferr) => sixfour7(out[Len(out)]) = 8 * Len(data)

\* C3: in the concatenation of the returned blocks the first N bytes are the
\* file, the byte at offset N is 0x80, and every later byte before the
\* 8-byte length field is 0x00 (so the block made in PAD0 holds no 0x80
\* before its length field).
C3_PaddedStream ==
    ~ferr =>
        \A k \in 0..(64 * Len(out) - 1) :
            /\ k < Len(data) => StreamAt(k) = data[k + 1]
            /\ k = Len(data) => StreamAt(k) = 128
            /\ (k > Len(data) /\ ~(status = "FINISH" /\ k >= 64 * Len(out) - 8))
                   => StreamAt(k) = 0

\* a 60-byte file has been padded: the 0x80 in the first block, the length
\* in the block made in PAD0
C3_Witness == pc = "done" /\ ~ferr /\ Len(data) = 60 /\ Len(out) = 2

\* C4: a padder call made in PAD0 (or PAD1) or FINISH consumes no byte of the
\* source and leaves the bit counter as it was.
C4_NoReadWhenPadding ==
    [][(pc = "loop" /\ status \in {"PAD0", "PAD1", "FINISH"})
          => (pos' = pos /\ nobits' = nobits)]_vars

\* C5: every block the padder returns is handed to the compression function
\* once, in order, before the next block is asked for.
C5_EveryBlockCompressed ==
    /\ pc = "body" => out = Append(fed, M)
    /\ pc # "body" => out = fed

\* C6: once a read has failed no block is returned to main for compression
\* and no digest is printed.
C6_ReadErrorAbandons == ferr => (pc # "body" /\ printed = <<>>)

\* C7: with the same bytes, whatever the sizes of the reads underneath, a run
\* returns the blocks, and prints the digest, of the run whose reads deliver
\* all they can.
C7_ChunkingTransparent ==
    (pc = "done" /\ ~ferr) =>
        LET ref == whole_run(CHOOSE b \in StackBlocks : TRUE, 0, 0, "READ", <<>>)
        IN  /\ out = ref
            /\ printed = IF prog = "md5c" THEN print_words(output, 4)
                         ELSE IF prog = "fin"
                              THEN print_words(whole_hash(ref, Len(ref), W32(0, 0)), 8)
                         ELSE <<>>

\* the blocks alone are those of the run whose reads deliver all they can
C7_SameBlocks ==
    (pc = "done" /\ ~ferr) =>
        out = whole_run(CHOOSE b \in StackBlocks : TRUE, 0, 0, "READ", <<>>)

\* C9: for the empty file each program prints the reference digest of its
\* algorithm.
C9_EmptyDigest ==
    (pc = "done" /\ ~ferr /\ Len(data) = 0) =>
        printed = IF prog = "fin" THEN SHA256_empty ELSE MD5_empty

\* C8: two calls of a compression function with the same chaining state and
\* the same block leave the same chaining state, and a call leaves the
\* process-wide output[] of md5.c as it was.
C8_PureCompression ==
    /\ Len(res) = 2 => res[1] = res[2]
    /\ prog = "md5c" => output = Arr(<<W32(0, 0), W32(0, 0), W32(0, 0), W32(0, 0)>>)

\* C10: the round loop of nexthash runs a pass only with an index t in 0..63,
\* and nexthash returns after exactly 64 passes.
C10_SixtyFourRounds ==
    /\ (pc = "rounds" /\ t < nexthash_rounds) => t \in 0..63
    /\ (prog = "fin" /\ pc = "caller" /\ Len(res) > 0) => t = 64

\* C11: when the round loop of nexthash starts, W[0..15] are the block's 16
\* words and every W[t], t in 16..63, is sig_one(W[t-2]) + W[t-7] +
\* sig_zero(W[t-15]) + W[t-16]; a round reads only a word the schedule loops
\* have written.
C11_ScheduleAssigned ==
    pc = "rounds" =>
        /\ \A k \in 0..15 : W[k] = threetwo(M, k)
        /\ \A k \in 16..63 :
               W[k] = Add32(Add32(Add32(sig_one(W[k - 2]), W[k - 7]), sig_zero(W[k - 15])),
                            W[k - 16])
        /\ t < nexthash_rounds => t \in nexthash_written

\* C12: nexthash leaves H[] alone while the round loop runs and, when it has
\* returned, each H[k], k in 0..7, is its value before the call plus working
\* register k (a..h) after the last round.
C12_AddOncePerBlock ==
    /\ pc = "rounds" => hash = h0
    /\ (prog = "fin" /\ pc = "caller" /\ Len(res) > 0) =>
           \A k \in 0..7 : hash[k] = Add32(h0[k], regs[k])

\* C13: after a call of md5 (md5.c or part_000) on (state, block) each of the
\* four words of the caller's chaining state is its value before the call
\* plus the matching working register after the 64 rounds, and md5 of md5.c
\* has written to nothing else (output[] is as before).
C13_StatePlusRegisters ==
    (prog \in {"md5c", "part0"} /\ pc = "caller" /\ Len(res) > 0) =>
        LET r == IF prog = "md5c" THEN md5_registers(h0, M, 0, 64)
                 ELSE md5_loop(h0, M, 0, 64)
        IN  /\ \A k \in 0..3 : hash[k] = Add32(h0[k], r[k])
            /\ prog = "md5c" =>
                   output = Arr(<<W32(0, 0), W32(0, 0), W32(0, 0), W32(0, 0)>>)

\* C14: round i (0..63) of md5 in md5.c and of md5 in part_000 applies the
\* function of its group (FF, GG, HH, II by sixteens), the registers
\* (a,b,c,d), (d,a,b,c), (c,d,a,b), (b,c,d,a) by i mod 4, the message word
\* MM[i], the rotate amount S[i] and the constant T[i]; so on the same state
\* and block both leave the same registers after the 64 rounds.
C14_SameRoundTuples ==
    (prog \in {"md5c", "part0"} /\ pc = "caller" /\ Len(res) > 0) =>
        /\ \A i \in 0..63 :
               LET want == <<IF i < 16 THEN "FF" ELSE IF i < 32 THEN "GG"
                             ELSE IF i < 48 THEN "HH" ELSE "II",
                             (4 - (i % 4)) % 4, (5 - (i % 4)) % 4, (6 - (i % 4)) % 4,
                             (7 - (i % 4)) % 4, At(MM, i), At(S, i), At(T, i)>>
               IN  /\ md5_statement_tuple(i) = want
                   /\ md5_round_tuple(i) = want
        /\ md5_registers(h0, M, 0, 64) = md5_loop(h0, M, 0, 64)

\* C15: in every run of a driver on a file of the model the pad status
\* becomes FINISH, the padder then returns 0 and the loop of main is left.
C15_LoopTerminates == <>(LoopOver /\ status = "FINISH")

\* the loop has been left after a file of more than one block, a read of
\* which failed
C15_Witness == pc = "after" /\ status = "FINISH" /\ Len(data) > 64 /\ ferr

\* C16: a padder call made in READ that reads n bytes leaves READ when n = 64,
\* PAD0 when 56 <= n < 64 and FINISH when n < 56; a call made in PAD0 leaves
\* FINISH; FINISH stays; no other step touches the status, and PAD1 is never
\* the status.
C16_StatusTransitions ==
    [][LET n == pos' - pos
       IN  /\ (pc = "loop" /\ status = "READ") =>
                  status' = IF n = 64 THEN "READ" ELSE IF n >= 56 THEN "PAD0" ELSE "FINISH"
           /\ (pc = "loop" /\ status = "PAD0") => status' = "FINISH"
           /\ status = "FINISH" => status' = "FINISH"
           /\ pc # "loop" => status' = status
           /\ status' # "PAD1"]_vars

\* Finalizing_padding.c has gone from READ through PAD0 to FINISH on a file
\* of 56 bytes
C16_Witness ==
    prog = "fin" /\ ~ferr /\ Len(data) = 56 /\ status = "FINISH" /\ Len(out) = 2

====
